---- MODULE Spec2Model ----
(***************************************************************************)
(* A model of the assistant-toolkit API: the agent / thread directory, the *)
(* permission computation of file uploads, background file ingestion, the  *)
(* cascading deletes, and the hybrid (vector + keyword) retriever.         *)
(*                                                                         *)
(* Python values are modelled as follows.                                  *)
(*   - An Optional[List[str]] of user ids is a record [null, ids]: null is *)
(*     TRUE for None; ids is the set of the list's elements (every list    *)
(*     the code stores or compares went through set(), order is free).     *)
(*   - uuid4 ids are drawn from counters (fresh, never reused).            *)
(*   - An absent agent_id / thread_id (None) is 0.                         *)
(***************************************************************************)
EXTENDS Naturals, Integers, Sequences, FiniteSets, TLC

VARIABLES
    agents,       \* agent collection: set of agent documents
    threads,      \* thread collection: set of thread documents
    file_chunks,  \* file collection: set of chunk documents (nodes)
    chat_chunks,  \* long-term chat collection: set of chat-turn documents
    short_term,   \* redis chat store: thread id -> number of stored messages
    jobs,         \* background ingestion tasks that were added and not yet run
    ids,          \* uuid generators: next agent / thread / file / upload id
    resp,         \* what the last request computed and answered
    r_pc,         \* retriever: position inside _retrieve
    r_search_type,\* retriever: self.search_type
    r_vector,     \* retriever: result of the vector pipeline
    r_keyword,    \* retriever: result of the keyword pipeline
    r_out,        \* retriever: final_results_list
    i_pc,         \* ingest_files: position inside the running call
    i_call,       \* ingest_files: number of the call (0 before the first)
    i_n,          \* ingest_files: len(nodes)
    i_i,          \* ingest_files: the batch loop's offset i
    i_ix,         \* _ensure_atlas_indexes: position in index_names
    i_coll,       \* the file collection: the nodes inserted, as [call, node]
    i_indexes,    \* the search indexes that exist on the file collection
    i_log,        \* ingest_files: what the running call did, in order
    i_ret,        \* ingest_files: what the call returned to its caller
    c_calls,      \* create requests in flight: caller -> position and arguments
    t_calls,      \* chat requests in flight: caller -> position and locals
    w_task,       \* the background task call_worker_endpoint: position and log
    u_call,       \* the upload request in flight: position and locals
    tmp_dirs,     \* temporary upload directories that exist on disk
    bg_tasks,     \* background tasks added by upload_files: temp_dir -> state
    a_lists       \* create_agent calls that stored an agent: agent id -> lists

dirVars == <<agents, threads, file_chunks, chat_chunks, short_term, jobs, ids, resp>>
retrVars == <<r_pc, r_search_type, r_vector, r_keyword, r_out>>
ingVars == <<i_pc, i_call, i_n, i_i, i_ix, i_coll, i_indexes, i_log, i_ret>>
raceVars == <<c_calls>>
chatVars == <<t_calls, w_task>>
tmpVars == <<u_call, tmp_dirs, bg_tasks>>
listVars == <<a_lists>>
vars == <<agents, threads, file_chunks, chat_chunks, short_term, jobs, ids, resp,
          r_pc, r_search_type, r_vector, r_keyword, r_out,
          i_pc, i_call, i_n, i_i, i_ix, i_coll, i_indexes, i_log, i_ret, c_calls,
          t_calls, w_task, u_call, tmp_dirs, bg_tasks, a_lists>>

----------------------------------------------------------------------------
(* Bounds of the model *)

MaxAgents == 1
MaxThreads == 1
MaxUploads == 1
MaxTurns == 1
MaxDocId == 3
ChunksPerDoc == 2
top_k == 2

Users == {"u1", "u2", "u3"}
Names == {"n1"}
Paths == {"doc.txt", "b.txt"}
SearchTypes == {"Hybrid", "Vector", "Keyword"}

----------------------------------------------------------------------------
(* Python values *)

NoneIds == [null |-> TRUE, ids |-> {}]
Some(S) == [null |-> FALSE, ids |-> S]

\* Optional[List[str]] values a request can carry: None, [] and the lists
OptLists == {NoneIds} \cup {Some(S) : S \in SUBSET Users}

\* bool(x) of an Optional[List]: None and [] are falsy
Truthy(x) == ~x.null /\ x.ids # {}

SeqToSet(s) == {s[i] : i \in 1..Len(s)}

----------------------------------------------------------------------------
(* Agent directory: AgentManagementService *)

AgentById(agent_id) == {a \in agents : a.id = agent_id}

\* create_agent, lines 37-39: the access list that is stored
create_agent_user_ids(user_ids, owner_user_id) ==
    IF Truthy(user_ids) THEN Some(user_ids.ids \cup {owner_user_id}) ELSE NoneIds

\* has_access_to_agent: "True", "False", or the TypeError that `user_id in None` raises
has_access_to_agent(agent_id, user_id) ==
    IF AgentById(agent_id) = {} THEN "False"
    ELSE LET agent == CHOOSE a \in AgentById(agent_id) : TRUE
         IN  IF agent.user_ids.null THEN "TypeError"
             ELSE IF user_id \in agent.user_ids.ids \/ agent.user_ids.ids = {}
                  THEN "True" ELSE "False"

\* an ownership check that only looks the agent up
is_owner_of_agent_any_user(agent_id, owner_user_id) == AgentById(agent_id) # {}

\* is_owner_of_agent
is_owner_of_agent(agent_id, owner_user_id) ==
    \E a \in AgentById(agent_id) : a.owner_user_id = owner_user_id

\* list_agents_for_user: the query {"$or": [{"user_ids": u}, {"user_ids": []}]}
\* matches an array that contains u and an array equal to []; it does not
\* match a null field
list_agents_for_user(user_id) ==
    {a.id : a \in {b \in agents : /\ ~b.user_ids.null
                                   /\ (user_id \in b.user_ids.ids \/ b.user_ids.ids = {})}}

----------------------------------------------------------------------------
(* Thread directory: ThreadManagementService *)

ThreadById(thread_id) == {t \in threads : t.id = thread_id}

\* is_owner_of_thread
is_owner_of_thread(thread_id, owner_user_id) ==
    \E t \in ThreadById(thread_id) : t.owner_user_id = owner_user_id

----------------------------------------------------------------------------
(* Permission computation of an upload *)

\* calculate_file_permissions with the restricted branch applying every
\* requested id (no intersection with the agent's list)
calculate_file_permissions_no_intersection(agent_user_ids, file_user_ids, owner_user_id) ==
    IF file_user_ids.null \/ file_user_ids.ids = {}
    THEN [error |-> FALSE, applied |-> agent_user_ids, excluded |-> {}]
    ELSE IF agent_user_ids.null
    THEN [error |-> TRUE, applied |-> NoneIds, excluded |-> {}]
    ELSE [error |-> FALSE,
          applied |-> Some(file_user_ids.ids \cup {owner_user_id}),
          excluded |-> IF agent_user_ids.ids = {} THEN {}
                       ELSE file_user_ids.ids \ agent_user_ids.ids]

\* calculate_file_permissions without applied_ids.add(owner_user_id)
calculate_file_permissions_owner_not_added(agent_user_ids, file_user_ids, owner_user_id) ==
    IF file_user_ids.null \/ file_user_ids.ids = {}
    THEN [error |-> FALSE, applied |-> agent_user_ids, excluded |-> {}]
    ELSE IF agent_user_ids.null
    THEN [error |-> TRUE, applied |-> NoneIds, excluded |-> {}]
    ELSE IF agent_user_ids.ids = {}
    THEN [error |-> FALSE, applied |-> Some(file_user_ids.ids), excluded |-> {}]
    ELSE [error |-> FALSE,
          applied |-> Some(agent_user_ids.ids \cap file_user_ids.ids),
          excluded |-> file_user_ids.ids \ agent_user_ids.ids]

\* FileManagementService.calculate_file_permissions
\* error is TRUE when set(agent_user_ids) raises TypeError (agent_user_ids is None)
calculate_file_permissions(agent_user_ids, file_user_ids, owner_user_id) ==
    IF file_user_ids.null \/ file_user_ids.ids = {}
    THEN [error |-> FALSE, applied |-> agent_user_ids, excluded |-> {}]
    ELSE IF agent_user_ids.null
    THEN [error |-> TRUE, applied |-> NoneIds, excluded |-> {}]
    ELSE IF agent_user_ids.ids = {}
    THEN [error |-> FALSE,
          applied |-> Some(file_user_ids.ids \cup {owner_user_id}),
          excluded |-> {}]
    ELSE [error |-> FALSE,
          applied |-> Some((agent_user_ids.ids \cap file_user_ids.ids) \cup {owner_user_id}),
          excluded |-> file_user_ids.ids \ agent_user_ids.ids]

\* the thread path with the requested ids applied instead of ignored
thread_file_permissions_requested_applied(owner_user_id, user_ids) ==
    [error |-> FALSE,
     applied |-> IF Truthy(user_ids) THEN Some(user_ids.ids \cup {owner_user_id})
                 ELSE Some({owner_user_id}),
     excluded |-> {}]

\* upload_files, thread path (lines 114-117)
thread_file_permissions(owner_user_id, user_ids) ==
    [error |-> FALSE,
     applied |-> Some({owner_user_id}),
     excluded |-> IF Truthy(user_ids) THEN user_ids.ids \ {owner_user_id} ELSE {}]

\* ValidationManagementService.adjust_file_on_agent_permissions: the helper no
\* endpoint calls; it takes no owner and adds none
adjust_file_on_agent_permissions(agent_user_ids, file_user_ids) ==
    IF file_user_ids.null \/ file_user_ids.ids = {}
    THEN [error |-> FALSE, applied |-> agent_user_ids, excluded |-> {}]
    ELSE IF agent_user_ids.null
    THEN [error |-> TRUE, applied |-> NoneIds, excluded |-> {}]
    ELSE IF agent_user_ids.ids = {}
    THEN [error |-> FALSE, applied |-> Some(file_user_ids.ids), excluded |-> {}]
    ELSE [error |-> FALSE,
          applied |-> Some(agent_user_ids.ids \cap file_user_ids.ids),
          excluded |-> file_user_ids.ids \ agent_user_ids.ids]

\* ValidationManagementService.adjust_file_on_thread_permissions
adjust_file_on_thread_permissions(thread_owner_user_id, file_user_ids) ==
    [error |-> FALSE,
     applied |-> Some({thread_owner_user_id}),
     excluded |-> (IF file_user_ids.null THEN {} ELSE file_user_ids.ids)
                     \ {thread_owner_user_id}]

\* ingest_files, lines 147-149: the user_ids written to every chunk
ingest_final_user_ids(user_ids, owner_user_id) ==
    IF Truthy(user_ids) THEN user_ids.ids \cup {owner_user_id} ELSE {}

----------------------------------------------------------------------------
(* MongoCustomRetriever *)

\* lines 63-82: the scope filter both pipelines carry (equality on
\* metadata.agent_id and / or metadata.thread_id, nothing else)
ScopeFilter(metadata, agent_id, thread_id) ==
    /\ (agent_id # 0 => metadata.agent_id = agent_id)
    /\ (thread_id # 0 => metadata.thread_id = thread_id)

\* final_docs_dict[str(doc["_id"])] = doc on a dict kept in insertion order:
\* a known key keeps its position and takes the new value
DictSet(d, doc) ==
    IF \E i \in 1..Len(d) : d[i].id = doc.id
    THEN [i \in 1..Len(d) |-> IF d[i].id = doc.id THEN doc ELSE d[i]]
    ELSE Append(d, doc)

RECURSIVE DictFill(_, _)
DictFill(d, docs) ==
    IF docs = <<>> THEN d ELSE DictFill(DictSet(d, Head(docs)), Tail(docs))

\* a Hybrid merge that yields nothing unless both lists have results
HybridMerge_needs_both(keyword_results, vector_results) ==
    IF keyword_results = <<>> \/ vector_results = <<>> THEN <<>>
    ELSE DictFill(<<>>, keyword_results \o vector_results)

\* lines 128-131: the Hybrid merge
HybridMerge(keyword_results, vector_results) ==
    DictFill(<<>>, keyword_results \o vector_results)

\* lines 120-135: final_results_list by search type
FinalResults(search_type, vector_results, keyword_results) ==
    IF search_type = "Hybrid" THEN HybridMerge(keyword_results, vector_results)
    ELSE IF search_type = "Vector" THEN vector_results
    ELSE IF search_type = "Keyword" THEN keyword_results
    ELSE <<>>

----------------------------------------------------------------------------
(* Requests and their answers *)

BlankResp ==
    [op |-> "none", status |-> 0, user |-> "", agent_id |-> 0, thread_id |-> 0,
     user_ids |-> NoneIds, applied |-> NoneIds, excluded |-> {},
     listed |-> {}, hits |-> <<>>, memory_hits |-> <<>>, search_type |-> "",
     file_id |-> 0]

IdleRetriever ==
    /\ r_pc = [state |-> "idle", vector |-> "none", keyword |-> "none", first |-> ""]
    /\ r_search_type = ""
    /\ r_vector = <<>>
    /\ r_keyword = <<>>
    /\ r_out = <<>>

\* no ingest_files call has run: empty collection, no index
IdleIngestion ==
    /\ i_pc = "idle"
    /\ i_call = 0
    /\ i_n = 0
    /\ i_i = 0
    /\ i_ix = 1
    /\ i_coll = {}
    /\ i_indexes = {}
    /\ i_log = <<>>
    /\ i_ret = "none"

Callers == {"p1", "p2"}

\* no create request is in flight
IdleCall == [pc |-> "idle", kind |-> "", name |-> "", owner_user_id |-> "", agent_id |-> 0, made |-> 0]
NoCalls == c_calls = [p \in Callers |-> IdleCall]

\* no chat request is in flight, the worker task has not been added
IdleChat == [pc |-> "idle", thread_id |-> 0, candidates |-> <<>>, reranked |-> <<>>,
             context |-> <<>>, turn_id |-> 0, memory |-> "none", order |-> 0]
IdleWorker == [pc |-> "idle", thread_id |-> 0, turn_id |-> 0, logged |-> FALSE]
NoChats ==
    /\ t_calls = [p \in Callers |-> IdleChat]
    /\ w_task = IdleWorker

\* no upload is in flight, no temporary directory exists
IdleUpload == [pc |-> "idle", temp_dir |-> 0, written |-> 0, files |-> 0, made |-> 0]
NoUploads ==
    /\ u_call = IdleUpload
    /\ tmp_dirs = {}
    /\ bg_tasks = [d \in {} |-> "added"]

\* no create_agent call has stored a list
NoLists == a_lists = [a \in {} |-> <<>>]

Init ==
    /\ agents = {}
    /\ threads = {}
    /\ file_chunks = {}
    /\ chat_chunks = {}
    /\ short_term = [t \in {} |-> 0]
    /\ jobs = {}
    /\ ids = [agent |-> 1, thread |-> 1, file |-> 1, upload |-> 1]
    /\ resp = BlankResp
    /\ IdleRetriever
    /\ IdleIngestion
    /\ NoCalls
    /\ NoChats
    /\ NoUploads
    /\ NoLists

\* ids the generators have handed out so far (a caller can only name those)
IssuedAgents == 1..(ids.agent - 1)
IssuedThreads == 1..(ids.thread - 1)

\* POST /agents -> AgentManagementService.create_agent
CreateAgent(name, owner_user_id, user_ids) ==
    /\ ids.agent <= MaxAgents
    /\ IF \E a \in agents : a.name = name /\ a.owner_user_id = owner_user_id
       THEN /\ resp' = [BlankResp EXCEPT !.op = "create_agent", !.status = 409,
                                         !.user = owner_user_id, !.user_ids = user_ids]
            /\ UNCHANGED <<agents, ids>>
       ELSE /\ agents' = agents \cup
                  {[id |-> ids.agent, name |-> name, owner_user_id |-> owner_user_id,
                    user_ids |-> create_agent_user_ids(user_ids, owner_user_id)]}
            /\ ids' = [ids EXCEPT !.agent = @ + 1]
            /\ resp' = [BlankResp EXCEPT !.op = "create_agent", !.status = 201,
                                         !.user = owner_user_id, !.user_ids = user_ids,
                                         !.agent_id = ids.agent]
    /\ UNCHANGED <<threads, file_chunks, chat_chunks, short_term, jobs>>
    /\ UNCHANGED retrVars
    /\ UNCHANGED <<ingVars, raceVars>>
    /\ UNCHANGED <<chatVars, tmpVars, listVars>>

\* GET /agents/{agent_id} -> has_access_to_agent
GetAgent(agent_id, user_id) ==
    /\ resp' = [BlankResp EXCEPT
                   !.op = "get_agent", !.user = user_id, !.agent_id = agent_id,
                   !.status = (CASE has_access_to_agent(agent_id, user_id) = "True" -> 200
                                 [] has_access_to_agent(agent_id, user_id) = "False" -> 403
                                 [] OTHER -> 500)]
    /\ UNCHANGED <<agents, threads, file_chunks, chat_chunks, short_term, jobs, ids>>
    /\ UNCHANGED retrVars
    /\ UNCHANGED <<ingVars, raceVars>>
    /\ UNCHANGED <<chatVars, tmpVars, listVars>>

\* GET /agents?by_owner=false -> list_agents_for_user
ListAgents(user_id) ==
    /\ resp' = [BlankResp EXCEPT !.op = "list_agents", !.user = user_id, !.status = 200,
                                 !.listed = list_agents_for_user(user_id)]
    /\ UNCHANGED <<agents, threads, file_chunks, chat_chunks, short_term, jobs, ids>>
    /\ UNCHANGED retrVars
    /\ UNCHANGED <<ingVars, raceVars>>
    /\ UNCHANGED <<chatVars, tmpVars, listVars>>

\* AgentManagementService.delete_agent: what is left of the file collection
delete_agent_files(agent_id) == {c \in file_chunks : c.agent_id # agent_id}

\* DELETE /agents/{agent_id} -> is_owner_of_agent, delete_agent
DeleteAgent(agent_id, owner_user_id) ==
    /\ IF ~is_owner_of_agent(agent_id, owner_user_id)
       THEN /\ resp' = [BlankResp EXCEPT !.op = "delete_agent", !.status = 403,
                                         !.user = owner_user_id, !.agent_id = agent_id]
            /\ UNCHANGED <<agents, file_chunks>>
       ELSE /\ file_chunks' = delete_agent_files(agent_id)
            /\ agents' = {a \in agents : a.id # agent_id}
            /\ resp' = [BlankResp EXCEPT !.op = "delete_agent", !.status = 200,
                                         !.user = owner_user_id, !.agent_id = agent_id]
    /\ UNCHANGED <<threads, chat_chunks, short_term, jobs, ids>>
    /\ UNCHANGED retrVars
    /\ UNCHANGED <<ingVars, raceVars>>
    /\ UNCHANGED <<chatVars, tmpVars, listVars>>

\* POST /threads -> has_access_to_agent, ThreadManagementService.create_thread
CreateThread(name, owner_user_id, agent_id) ==
    /\ ids.thread <= MaxThreads
    /\ IF has_access_to_agent(agent_id, owner_user_id) # "True"
       THEN /\ resp' = [BlankResp EXCEPT
                           !.op = "create_thread", !.user = owner_user_id,
                           !.agent_id = agent_id,
                           !.status = IF has_access_to_agent(agent_id, owner_user_id) = "False"
                                      THEN 403 ELSE 500]
            /\ UNCHANGED <<threads, ids>>
       ELSE IF \E t \in threads : t.name = name /\ t.owner_user_id = owner_user_id
       THEN /\ resp' = [BlankResp EXCEPT !.op = "create_thread", !.status = 409,
                                         !.user = owner_user_id, !.agent_id = agent_id]
            /\ UNCHANGED <<threads, ids>>
       ELSE /\ threads' = threads \cup
                  {[id |-> ids.thread, name |-> name, owner_user_id |-> owner_user_id,
                    agent_id |-> agent_id]}
            /\ ids' = [ids EXCEPT !.thread = @ + 1]
            /\ resp' = [BlankResp EXCEPT !.op = "create_thread", !.status = 201,
                                         !.user = owner_user_id, !.agent_id = agent_id,
                                         !.thread_id = ids.thread]
    /\ UNCHANGED <<agents, file_chunks, chat_chunks, short_term, jobs>>
    /\ UNCHANGED retrVars
    /\ UNCHANGED <<ingVars, raceVars>>
    /\ UNCHANGED <<chatVars, tmpVars, listVars>>

\* DELETE /threads/{thread_id} -> is_owner_of_thread, delete_thread
DeleteThread(thread_id, owner_user_id) ==
    /\ IF ~is_owner_of_thread(thread_id, owner_user_id)
       THEN /\ resp' = [BlankResp EXCEPT !.op = "delete_thread", !.status = 403,
                                         !.user = owner_user_id, !.thread_id = thread_id]
            /\ UNCHANGED <<threads, file_chunks, chat_chunks, short_term>>
       ELSE /\ file_chunks' = {c \in file_chunks : c.thread_id # thread_id}
            /\ chat_chunks' = {c \in chat_chunks : c.thread_id # thread_id}
            /\ short_term' = [t \in DOMAIN short_term \ {thread_id} |-> short_term[t]]
            /\ threads' = {t \in threads : t.id # thread_id}
            /\ resp' = [BlankResp EXCEPT !.op = "delete_thread", !.status = 200,
                                         !.user = owner_user_id, !.thread_id = thread_id]
    /\ UNCHANGED <<agents, jobs, ids>>
    /\ UNCHANGED retrVars
    /\ UNCHANGED <<ingVars, raceVars>>
    /\ UNCHANGED <<chatVars, tmpVars, listVars>>

----------------------------------------------------------------------------
(* File upload and background ingestion *)

\* the file lists a request can carry: one file, or two (the same name twice
\* gives the same temp path twice)
PathLists == {<<"doc.txt">>, <<"doc.txt", "doc.txt">>, <<"doc.txt", "b.txt">>}

\* a validation that looks the named scopes up before it counts them
upload_validation_lookup_first(owner_user_id, agent_id, thread_id) ==
    IF agent_id # 0 /\ ~is_owner_of_agent(agent_id, owner_user_id) THEN 403
    ELSE IF agent_id = 0 /\ thread_id # 0 /\ ~is_owner_of_thread(thread_id, owner_user_id) THEN 403
    ELSE IF agent_id = 0 /\ thread_id = 0 THEN 400
    ELSE IF agent_id # 0 /\ thread_id # 0 THEN 400
    ELSE 0

\* upload_files, lines 83-96 and 111-112: the checks that reject a request
\* (they read neither user_ids nor the files); 0 when the request passes
upload_validation(owner_user_id, agent_id, thread_id) ==
    IF agent_id = 0 /\ thread_id = 0 THEN 400
    ELSE IF agent_id # 0 /\ thread_id # 0 THEN 400
    ELSE IF agent_id # 0
    THEN IF ~is_owner_of_agent(agent_id, owner_user_id) THEN 403 ELSE 0
    ELSE IF ~is_owner_of_thread(thread_id, owner_user_id) THEN 403 ELSE 0

\* upload_files, lines 93-117: the permission result of a request that passed
upload_permissions(owner_user_id, agent_id, thread_id, user_ids) ==
    IF agent_id # 0
    THEN LET agent == CHOOSE a \in AgentById(agent_id) : TRUE
         IN  calculate_file_permissions(agent.user_ids, user_ids, owner_user_id)
    ELSE thread_file_permissions(owner_user_id, user_ids)

\* POST /files -> upload_files; an accepted upload adds the background task
\* run_ingestion_and_cleanup with user_ids = the applied list
UploadFiles(owner_user_id, agent_id, thread_id) ==
    /\ IF upload_validation(owner_user_id, agent_id, thread_id) # 0
       THEN /\ resp' = [BlankResp EXCEPT
                           !.op = "upload_files",
                           !.status = upload_validation(owner_user_id, agent_id, thread_id),
                           !.user = owner_user_id, !.agent_id = agent_id,
                           !.thread_id = thread_id]
            /\ UNCHANGED <<jobs, ids>>
       ELSE \E user_ids \in OptLists, file_paths \in PathLists :
              LET perm == upload_permissions(owner_user_id, agent_id, thread_id, user_ids)
              IN  IF perm.error
                  THEN /\ resp' = [BlankResp EXCEPT
                                      !.op = "upload_files", !.status = 500,
                                      !.user = owner_user_id, !.agent_id = agent_id,
                                      !.thread_id = thread_id, !.user_ids = user_ids]
                       /\ UNCHANGED <<jobs, ids>>
                  ELSE /\ ids.upload <= MaxUploads
                       /\ resp' = [BlankResp EXCEPT
                                      !.op = "upload_files", !.status = 202,
                                      !.user = owner_user_id, !.agent_id = agent_id,
                                      !.thread_id = thread_id, !.user_ids = user_ids,
                                      !.applied = perm.applied, !.excluded = perm.excluded]
                       /\ jobs' = jobs \cup
                             {[job_id |-> ids.upload, file_paths |-> file_paths,
                               owner_user_id |-> owner_user_id, agent_id |-> agent_id,
                               thread_id |-> thread_id, user_ids |-> perm.applied]}
                       /\ ids' = [ids EXCEPT !.upload = @ + 1]
    /\ UNCHANGED <<agents, threads, file_chunks, chat_chunks, short_term>>
    /\ UNCHANGED retrVars
    /\ UNCHANGED <<ingVars, raceVars>>
    /\ UNCHANGED <<chatVars, tmpVars, listVars>>

\* ingest_files, line 154: {self._generate_file_id(): path for path in file_paths},
\* as the sequence of <<file_id, path>> pairs in list order; first_id is the
\* next id the generator gives
file_id_map(file_paths, first_id) ==
    [i \in 1..Len(file_paths) |-> <<first_id + i - 1, file_paths[i]>>]

\* _load_and_prepare_docs and the splitter: the chunks of one ingestion call
\* (call is the ingestion call that wrote the chunk; it is not a stored field)
prepared_chunks(call, id_map, owner_user_id, agent_id, thread_id, user_ids) ==
    {[call |-> call, file_id |-> id_map[i][1], chunk_no |-> n, file_name |-> id_map[i][2],
      owner_user_id |-> owner_user_id, user_ids |-> user_ids,
      agent_id |-> IF agent_id # 0 THEN agent_id ELSE 0,
      thread_id |-> IF agent_id # 0 THEN 0 ELSE thread_id]
     : <<i, n>> \in (1..Len(id_map)) \X (1..ChunksPerDoc)}

\* the background task: FileManagementService.ingest_files
IngestFiles(job) ==
    LET final_user_ids == ingest_final_user_ids(job.user_ids, job.owner_user_id)
        id_map == file_id_map(job.file_paths, ids.file)
    IN  /\ jobs' = jobs \ {job}
        /\ file_chunks' = file_chunks \cup
               prepared_chunks(job.job_id, id_map, job.owner_user_id, job.agent_id,
                               job.thread_id, final_user_ids)
        /\ ids' = [ids EXCEPT !.file = @ + Len(id_map)]
        /\ UNCHANGED <<agents, threads, chat_chunks, short_term, resp>>
        /\ UNCHANGED retrVars
        /\ UNCHANGED <<ingVars, raceVars>>
        /\ UNCHANGED <<chatVars, tmpVars, listVars>>

----------------------------------------------------------------------------
(* Chat *)

\* the index ranks the documents that pass the filter; here by id
RECURSIVE Ranked(_)
Ranked(S) ==
    IF S = {} THEN <<>>
    ELSE LET first == CHOOSE c \in S : \A d \in S : c.id[1] < d.id[1]
                          \/ (c.id[1] = d.id[1] /\ c.id[2] <= d.id[2])
         IN  <<first>> \o Ranked(S \ {first})

Limit(s, n) == IF Len(s) <= n THEN s ELSE SubSeq(s, 1, n)

\* one sub-query of a retriever on a collection: filter, score, limit
SubQuery(docs, agent_id, thread_id, score) ==
    Limit(Ranked({[id |-> d.id, score |-> score, metadata |-> d.metadata]
                  : d \in {x \in docs : ScopeFilter(x.metadata, agent_id, thread_id)}}),
          top_k)

FileDocs == {[id |-> <<c.file_id, c.chunk_no>>, metadata |-> c] : c \in file_chunks}
ChatDocs == {[id |-> <<c.thread_id, c.turn_id>>, metadata |-> c] : c \in chat_chunks}

\* MongoCustomRetriever._retrieve with every index call succeeding
Retrieve(docs, search_type, agent_id, thread_id) ==
    FinalResults(search_type,
                 SubQuery(docs, agent_id, thread_id, "vectorSearchScore"),
                 SubQuery(docs, agent_id, thread_id, "searchScore"))

StoredMessages(thread_id) ==
    IF thread_id \in DOMAIN short_term THEN short_term[thread_id] ELSE 0

\* POST /chat -> RAGAssistantService.get_chat_response. The request carries no
\* user id; user_id is who sends it. The two messages of the turn go to the
\* short-term store, then the turn is posted to the memory API, which stores
\* it (stored = TRUE) or fails and is logged (stored = FALSE).
Chat(user_id, agent_id, thread_id, search_type, stored) ==
    LET llen == StoredMessages(thread_id) + 2
        turn_id == (llen \div 2) + 1
    IN  /\ StoredMessages(thread_id) < 2 * MaxTurns
        /\ resp' = [BlankResp EXCEPT
                       !.op = "chat", !.status = 200, !.user = user_id,
                       !.agent_id = agent_id, !.thread_id = thread_id,
                       !.search_type = search_type,
                       !.hits = Retrieve(FileDocs, search_type, agent_id, 0),
                       !.memory_hits = Retrieve(ChatDocs, search_type, 0, thread_id)]
        /\ short_term' = [t \in DOMAIN short_term \cup {thread_id} |->
                             IF t = thread_id THEN llen ELSE short_term[t]]
        /\ chat_chunks' = IF stored
                          THEN chat_chunks \cup {[thread_id |-> thread_id, turn_id |-> turn_id]}
                          ELSE chat_chunks
        /\ UNCHANGED <<agents, threads, file_chunks, jobs, ids>>
        /\ UNCHANGED retrVars
        /\ UNCHANGED <<ingVars, raceVars>>
        /\ UNCHANGED <<chatVars, tmpVars, listVars>>

----------------------------------------------------------------------------
(* The directory and its files *)

Next ==
    \/ \E n \in Names, o \in Users, l \in OptLists : CreateAgent(n, o, l)
    \/ \E a \in IssuedAgents, u \in Users : DeleteAgent(a, u)
    \/ \E n \in Names, o \in Users, a \in IssuedAgents : CreateThread(n, o, a)
    \/ \E t \in IssuedThreads, u \in Users : DeleteThread(t, u)
    \/ \E o \in Users, a \in {0} \cup IssuedAgents, t \in {0} \cup IssuedThreads :
          UploadFiles(o, a, t)
    \/ \E j \in jobs : IngestFiles(j)
    \/ \E u \in Users, a \in IssuedAgents, t \in IssuedThreads,
          st \in SearchTypes, stored \in BOOLEAN : Chat(u, a, t, st, stored)

Spec == Init /\ [][Next]_vars

\* the agent directory alone, with its read requests
NextAccess ==
    \/ \E n \in Names, o \in Users, l \in OptLists : CreateAgent(n, o, l)
    \/ \E a \in IssuedAgents, u \in Users : GetAgent(a, u)
    \/ \E u \in Users : ListAgents(u)
    \/ \E a \in IssuedAgents, u \in Users : DeleteAgent(a, u)

SpecAccess == Init /\ [][NextAccess]_vars

----------------------------------------------------------------------------
(* One call of MongoCustomRetriever._retrieve, step by step *)

DocIds == 1..MaxDocId

\* the lists an index call can return: at most top_k documents, each _id once,
\* every document carrying the score of the pipeline that produced it
RECURSIVE NoDupSeqs(_, _)
NoDupSeqs(S, n) ==
    IF n = 0 THEN {<<>>}
    ELSE {<<>>} \cup UNION {{<<x>> \o s : s \in NoDupSeqs(S \ {x}, n - 1)} : x \in S}

ResultLists(score) ==
    {[i \in 1..Len(s) |-> [id |-> s[i], score |-> score]] : s \in NoDupSeqs(DocIds, top_k)}

InitRetr ==
    /\ agents = {}
    /\ threads = {}
    /\ file_chunks = {}
    /\ chat_chunks = {}
    /\ short_term = [t \in {} |-> 0]
    /\ jobs = {}
    /\ ids = [agent |-> 1, thread |-> 1, file |-> 1, upload |-> 1]
    /\ resp = BlankResp
    /\ r_pc = [state |-> "embed", vector |-> "none", keyword |-> "none", first |-> ""]
    /\ r_search_type \in SearchTypes
    /\ r_vector = <<>>
    /\ r_keyword = <<>>
    /\ r_out = <<>>
    /\ IdleIngestion
    /\ NoCalls
    /\ NoChats
    /\ NoUploads
    /\ NoLists

\* line 61: get_query_embedding, outside any try: a failure leaves _retrieve
Embed(ok) ==
    /\ r_pc.state = "embed"
    /\ r_pc' = [r_pc EXCEPT !.state = IF ok THEN "dispatch" ELSE "raised"]
    /\ UNCHANGED <<r_search_type, r_vector, r_keyword, r_out>>
    /\ UNCHANGED dirVars
    /\ UNCHANGED <<ingVars, raceVars>>
    /\ UNCHANGED <<chatVars, tmpVars, listVars>>

\* _run_query(vector_pipeline): the list, or [] when aggregate raises; first
\* keeps which of the two tasks returned first
RunVector(ok, result) ==
    /\ r_pc.state = "dispatch"
    /\ r_search_type \in {"Hybrid", "Vector"}
    /\ r_pc.vector = "none"
    /\ r_vector' = IF ok THEN result ELSE <<>>
    /\ r_pc' = [r_pc EXCEPT !.vector = IF ok THEN "ok" ELSE "failed",
                             !.first = IF @ = "" THEN "vector" ELSE @]
    /\ UNCHANGED <<r_search_type, r_keyword, r_out>>
    /\ UNCHANGED dirVars
    /\ UNCHANGED <<ingVars, raceVars>>
    /\ UNCHANGED <<chatVars, tmpVars, listVars>>

\* _run_query(keyword_pipeline): the list, or [] when aggregate raises
RunKeyword(ok, result) ==
    /\ r_pc.state = "dispatch"
    /\ r_search_type \in {"Hybrid", "Keyword"}
    /\ r_pc.keyword = "none"
    /\ r_keyword' = IF ok THEN result ELSE <<>>
    /\ r_pc' = [r_pc EXCEPT !.keyword = IF ok THEN "ok" ELSE "failed",
                             !.first = IF @ = "" THEN "keyword" ELSE @]
    /\ UNCHANGED <<r_search_type, r_vector, r_out>>
    /\ UNCHANGED dirVars
    /\ UNCHANGED <<ingVars, raceVars>>
    /\ UNCHANGED <<chatVars, tmpVars, listVars>>

\* a merge that starts as soon as one of the two tasks has returned
Finish_before_join ==
    /\ r_pc.state = "dispatch"
    /\ r_pc.vector # "none" \/ r_pc.keyword # "none"
    /\ r_out' = FinalResults(r_search_type, r_vector, r_keyword)
    /\ r_pc' = [r_pc EXCEPT !.state = "done"]
    /\ UNCHANGED <<r_search_type, r_vector, r_keyword>>
    /\ UNCHANGED dirVars
    /\ UNCHANGED <<ingVars, raceVars>>
    /\ UNCHANGED <<chatVars, tmpVars, listVars>>

\* lines 125-144: both futures joined (Hybrid) or the one query returned
Finish ==
    /\ r_pc.state = "dispatch"
    /\ r_search_type \in {"Hybrid", "Vector"} => r_pc.vector # "none"
    /\ r_search_type \in {"Hybrid", "Keyword"} => r_pc.keyword # "none"
    /\ r_out' = FinalResults(r_search_type, r_vector, r_keyword)
    /\ r_pc' = [r_pc EXCEPT !.state = "done"]
    /\ UNCHANGED <<r_search_type, r_vector, r_keyword>>
    /\ UNCHANGED dirVars
    /\ UNCHANGED <<ingVars, raceVars>>
    /\ UNCHANGED <<chatVars, tmpVars, listVars>>

NextRetr ==
    \/ \E ok \in BOOLEAN : Embed(ok)
    \/ \E ok \in BOOLEAN, l \in ResultLists("vectorSearchScore") : RunVector(ok, l)
    \/ \E ok \in BOOLEAN, l \in ResultLists("searchScore") : RunKeyword(ok, l)
    \/ Finish

SpecRetr == InitRetr /\ [][NextRetr]_vars

----------------------------------------------------------------------------
(* One ingest_files call step by step: the batch loop and the index ensure *)

MaxNodes == 5
MaxCalls == 2
ingestion_batch_size == 2

Min(a, b) == IF a < b THEN a ELSE b

\* nodes[i:i + ingestion_batch_size] that skips no node but reaches one too far
BatchNodes_one_too_far(i, n) == (i + 1)..Min(i + ingestion_batch_size + 1, n)

\* line 174: batch_nodes = nodes[i:i + ingestion_batch_size], nodes numbered from 1
BatchNodes(i, n) == (i + 1)..Min(i + ingestion_batch_size, n)

\* line 175: batch_num
batch_num(i) == (i \div ingestion_batch_size) + 1

\* line 176: total_batches
total_batches(n) == (n + ingestion_batch_size - 1) \div ingestion_batch_size

\* index_names of _ensure_atlas_indexes, in order
index_names == <<"vector_index", "search_index">>

\* what create_search_index can answer for an index
IndexOutcomes(name) ==
    IF name \in i_indexes THEN {"already exists", "failure"} ELSE {"created", "failure"}

\* an except clause that re-raises every OperationFailure
ensure_index_raises_always(outcome) == outcome # "created"

\* lines 87-94: the except clause re-raises unless the message says "already exists"
ensure_index_raises(outcome) == outcome = "failure"

\* ingest_files has no return statement with a value: every path returns None
ingest_files_return(failed) == "None"

InitIngest ==
    /\ agents = {}
    /\ threads = {}
    /\ file_chunks = {}
    /\ chat_chunks = {}
    /\ short_term = [t \in {} |-> 0]
    /\ jobs = {}
    /\ ids = [agent |-> 1, thread |-> 1, file |-> 1, upload |-> 1]
    /\ resp = BlankResp
    /\ IdleRetriever
    /\ IdleIngestion
    /\ NoCalls
    /\ NoChats
    /\ NoUploads
    /\ NoLists

\* lines 143-170: entry of ingest_files up to the node list; a call without
\* scope, or one whose files yield no document, returns at once
StartIngest(scoped, n) ==
    /\ i_pc \in {"idle", "returned"}
    /\ i_call < MaxCalls
    /\ i_call' = i_call + 1
    /\ i_log' = <<>>
    /\ i_i' = 0
    /\ i_ix' = 1
    /\ IF scoped /\ n > 0
       THEN /\ i_n' = n
            /\ i_pc' = "loop"
            /\ i_ret' = "none"
       ELSE /\ i_n' = 0
            /\ i_pc' = "returned"
            /\ i_ret' = ingest_files_return(FALSE)
    /\ UNCHANGED <<i_coll, i_indexes>>
    /\ UNCHANGED <<dirVars, retrVars, raceVars>>
    /\ UNCHANGED <<chatVars, tmpVars, listVars>>

\* line 173: for i in range(0, len(nodes), ingestion_batch_size)
LoopStep ==
    /\ i_pc = "loop"
    /\ IF i_i < i_n
       THEN /\ i_pc' = "insert"
            /\ i_log' = Append(i_log, [ev |-> "start", batch |-> batch_num(i_i),
                                       nodes |-> BatchNodes(i_i, i_n)])
       ELSE /\ i_pc' = "indexes"
            /\ UNCHANGED i_log
    /\ UNCHANGED <<i_call, i_n, i_i, i_ix, i_coll, i_indexes, i_ret>>
    /\ UNCHANGED <<dirVars, retrVars, raceVars>>
    /\ UNCHANGED <<chatVars, tmpVars, listVars>>

\* lines 180-185: VectorStoreIndex(nodes=batch_nodes, ...) embeds and inserts the
\* batch; when it raises, some first nodes of the batch may already be stored,
\* and the except clause of line 192 logs and ends the call
InsertBatch(ok, stored) ==
    /\ i_pc = "insert"
    /\ stored < Cardinality(BatchNodes(i_i, i_n))
    /\ IF ok
       THEN /\ i_coll' = i_coll \cup {[call |-> i_call, node |-> x] : x \in BatchNodes(i_i, i_n)}
            /\ i_log' = Append(i_log, [ev |-> "ok", batch |-> batch_num(i_i),
                                       nodes |-> BatchNodes(i_i, i_n)])
            /\ i_i' = i_i + ingestion_batch_size
            /\ i_pc' = "loop"
            /\ UNCHANGED i_ret
       ELSE /\ i_coll' = i_coll \cup {[call |-> i_call, node |-> x] : x \in (i_i + 1)..(i_i + stored)}
            /\ i_log' = Append(i_log, [ev |-> "fail", batch |-> batch_num(i_i),
                                       nodes |-> (i_i + 1)..(i_i + stored)])
            /\ i_pc' = "returned"
            /\ i_ret' = ingest_files_return(TRUE)
            /\ UNCHANGED i_i
    /\ UNCHANGED <<i_call, i_n, i_ix, i_indexes>>
    /\ UNCHANGED <<dirVars, retrVars, raceVars>>
    /\ UNCHANGED <<chatVars, tmpVars, listVars>>

\* _ensure_atlas_indexes, one turn of its loop (lines 86-94)
EnsureIndex(outcome) ==
    /\ i_pc = "indexes"
    /\ outcome \in IndexOutcomes(index_names[i_ix])
    /\ i_indexes' = IF outcome = "created" THEN i_indexes \cup {index_names[i_ix]}
                    ELSE i_indexes
    /\ i_log' = Append(i_log, [ev |-> "index", batch |-> i_ix, nodes |-> {},
                               outcome |-> outcome])
    /\ IF ensure_index_raises(outcome)
       THEN /\ i_pc' = "returned"
            /\ i_ret' = ingest_files_return(TRUE)
            /\ UNCHANGED i_ix
       ELSE IF i_ix < Len(index_names)
       THEN /\ i_ix' = i_ix + 1
            /\ UNCHANGED <<i_pc, i_ret>>
       ELSE /\ i_pc' = "returned"
            /\ i_ret' = ingest_files_return(FALSE)
            /\ UNCHANGED i_ix
    /\ UNCHANGED <<i_call, i_n, i_i, i_coll>>
    /\ UNCHANGED <<dirVars, retrVars, raceVars>>
    /\ UNCHANGED <<chatVars, tmpVars, listVars>>

NextIngest ==
    \/ \E scoped \in BOOLEAN, n \in 0..MaxNodes : StartIngest(scoped, n)
    \/ LoopStep
    \/ \E ok \in BOOLEAN, stored \in 0..(ingestion_batch_size - 1) : InsertBatch(ok, stored)
    \/ \E outcome \in {"created", "already exists", "failure"} : EnsureIndex(outcome)

SpecIngest == InitIngest /\ [][NextIngest]_vars

----------------------------------------------------------------------------
(* create_agent / create_thread step by step: find_one, then insert_one *)

MaxCreates == 2
Kinds == {"agent", "thread"}

\* a duplicate test on the name alone, whoever owns the document
name_taken_any_owner(kind, name, owner_user_id) ==
    IF kind = "agent"
    THEN \E a \in agents : a.name = name
    ELSE \E t \in threads : t.name = name

\* find_one({"name": name, "owner_user_id": owner_user_id}) of create_agent
\* (line 34) and create_thread (line 40)
name_taken(kind, name, owner_user_id) ==
    IF kind = "agent"
    THEN \E a \in agents : a.name = name /\ a.owner_user_id = owner_user_id
    ELSE \E t \in threads : t.name = name /\ t.owner_user_id = owner_user_id

\* an insert into a collection with a unique index on (name, owner_user_id)
insert_one_unique(kind, name, owner_user_id) ==
    IF name_taken(kind, name, owner_user_id) THEN "conflict" ELSE "created"

\* insert_one (agent line 49, thread line 50): _id is the only unique key, and
\* it is fresh
insert_one(kind, name, owner_user_id) == "created"

\* a request arrives; a create_thread request reaches the service only past
\* the endpoint's has_access_to_agent gate
BeginCreate(p, kind, name, owner_user_id, agent_id) ==
    /\ c_calls[p].pc = "idle"
    /\ c_calls[p].made < MaxCreates
    /\ kind = "agent" => agent_id = 0
    /\ kind = "thread" => has_access_to_agent(agent_id, owner_user_id) = "True"
    /\ c_calls' = [c_calls EXCEPT ![p] =
                      [pc |-> "check", kind |-> kind, name |-> name,
                       owner_user_id |-> owner_user_id, agent_id |-> agent_id,
                       made |-> @.made + 1]]
    /\ UNCHANGED <<dirVars, retrVars, ingVars>>
    /\ UNCHANGED <<chatVars, tmpVars, listVars>>

\* the same, admitted only while no other request is in flight
BeginCreateAlone(p, kind, name, owner_user_id, agent_id) ==
    /\ \A q \in Callers : c_calls[q].pc = "idle"
    /\ BeginCreate(p, kind, name, owner_user_id, agent_id)

\* the find_one test: ValueError (answered 409) when a document matches
CheckName(p) ==
    /\ c_calls[p].pc = "check"
    /\ c_calls' = [c_calls EXCEPT ![p].pc =
                      IF name_taken(c_calls[p].kind, c_calls[p].name, c_calls[p].owner_user_id)
                      THEN "conflict" ELSE "insert"]
    /\ UNCHANGED <<dirVars, retrVars, ingVars>>
    /\ UNCHANGED <<chatVars, tmpVars, listVars>>

\* the document is built and inserted (an agent is shared with every user, so
\* that every user may create threads under it)
InsertOne(p) ==
    /\ c_calls[p].pc = "insert"
    /\ LET c == c_calls[p]
           out == insert_one(c.kind, c.name, c.owner_user_id)
       IN  /\ c_calls' = [c_calls EXCEPT ![p].pc = out]
           /\ IF out # "created"
              THEN UNCHANGED <<agents, threads, ids>>
              ELSE IF c.kind = "agent"
              THEN /\ agents' = agents \cup
                         {[id |-> ids.agent, name |-> c.name,
                           owner_user_id |-> c.owner_user_id,
                           user_ids |-> create_agent_user_ids(Some(Users), c.owner_user_id)]}
                   /\ ids' = [ids EXCEPT !.agent = @ + 1]
                   /\ UNCHANGED threads
              ELSE /\ threads' = threads \cup
                         {[id |-> ids.thread, name |-> c.name,
                           owner_user_id |-> c.owner_user_id, agent_id |-> c.agent_id]}
                   /\ ids' = [ids EXCEPT !.thread = @ + 1]
                   /\ UNCHANGED agents
    /\ UNCHANGED <<file_chunks, chat_chunks, short_term, jobs, resp>>
    /\ UNCHANGED <<retrVars, ingVars>>
    /\ UNCHANGED <<chatVars, tmpVars, listVars>>

\* the endpoint answers (201 or 409) and the caller is free again
ReturnCreate(p) ==
    /\ c_calls[p].pc \in {"created", "conflict"}
    /\ c_calls' = [c_calls EXCEPT ![p].pc = "idle"]
    /\ UNCHANGED <<dirVars, retrVars, ingVars>>
    /\ UNCHANGED <<chatVars, tmpVars, listVars>>

\* requests executed one at a time
NextCreateSeq ==
    \/ \E p \in Callers, k \in Kinds, n \in Names, o \in Users, a \in {0} \cup IssuedAgents :
          BeginCreateAlone(p, k, n, o, a)
    \/ \E p \in Callers : CheckName(p)
    \/ \E p \in Callers : InsertOne(p)
    \/ \E p \in Callers : ReturnCreate(p)

SpecCreateSeq == Init /\ [][NextCreateSeq]_vars

\* requests served concurrently (the endpoints are sync functions, which the
\* server runs on a thread pool)
NextCreateRace ==
    \/ \E p \in Callers, k \in Kinds, n \in Names, o \in Users, a \in {0} \cup IssuedAgents :
          BeginCreate(p, k, n, o, a)
    \/ \E p \in Callers : CheckName(p)
    \/ \E p \in Callers : InsertOne(p)
    \/ \E p \in Callers : ReturnCreate(p)

SpecCreateRace == Init /\ [][NextCreateRace]_vars

----------------------------------------------------------------------------
(* One chat turn, step by step, and the scheduled chat ingestion *)

reranker_top_n == 1

\* the threads the chat callers talk on: both exist, under agent 1
ChatThreadOwner == <<"u1", "u2">>
ChatThreads == 1..Len(ChatThreadOwner)

InitChat ==
    /\ agents = {[id |-> 1, name |-> "n1", owner_user_id |-> "u1",
                  user_ids |-> create_agent_user_ids(Some({"u2"}), "u1")]}
    /\ threads = {[id |-> t, name |-> "n1", owner_user_id |-> ChatThreadOwner[t],
                   agent_id |-> 1] : t \in ChatThreads}
    /\ file_chunks = {}
    /\ chat_chunks = {}
    /\ short_term = [t \in {} |-> 0]
    /\ jobs = {}
    /\ ids = [agent |-> 2, thread |-> Len(ChatThreadOwner) + 1, file |-> 1, upload |-> 1]
    /\ resp = BlankResp
    /\ IdleRetriever
    /\ IdleIngestion
    /\ NoCalls
    /\ NoChats
    /\ NoUploads
    /\ NoLists

\* what the router retriever can return for a question: at most top_k
\* documents, each once, in the retriever's own order
CandidateLists == NoDupSeqs(DocIds, top_k)

\* the relevance the reranker gives a document for the question; the documents
\* are numbered so that a higher number is more relevant
relevance(d) == d

RECURSIVE by_relevance(_)
by_relevance(S) ==
    IF S = {} THEN <<>>
    ELSE LET best == CHOOSE d \in S : \A e \in S : relevance(e) <= relevance(d)
         IN  <<best>> \o by_relevance(S \ {best})

\* CohereRerank.postprocess_nodes: the nodes by descending relevance, cut to top_n
postprocess_nodes(nodes) == Limit(by_relevance(SeqToSet(nodes)), reranker_top_n)

\* CondensePlusContextChatEngine.from_defaults is given retriever = router_retriever
\* and no node_postprocessors (the query_engine keyword is not one of its
\* parameters), so of the retriever's list and the reranker's output for it, the
\* context is the retriever's list as it came
engine_context(retrieved, reranked) == retrieved

\* turn_id = redis_client.llen(thread_id) // 2 + 1
turn_id_of(llen) == llen \div 2 + 1

\* what requests.post + raise_for_status can do in _ingest_turn_to_memory
MemoryOutcomes == {"ok", "unreachable", "error_status"}

\* except requests.exceptions.RequestException: ConnectionError, Timeout and
\* HTTPError are all RequestExceptions
ingest_turn_raises(outcome) == FALSE

\* except httpx.RequestError: a connection failure or a timeout is caught;
\* raise_for_status raises httpx.HTTPStatusError, which is not a RequestError
call_worker_raises(outcome) == outcome = "error_status"

PastChats == {q \in Callers : t_calls[q].order > 0}

\* POST /chat arrives: get_chat_response starts for thread_id
BeginChat(p, thread_id) ==
    /\ t_calls[p].pc = "idle"
    /\ t_calls' = [t_calls EXCEPT ![p] = [IdleChat EXCEPT !.pc = "observe",
                                                          !.thread_id = thread_id]]
    /\ UNCHANGED <<w_task, dirVars>>
    /\ UNCHANGED <<retrVars, ingVars, raceVars, tmpVars, listVars>>

\* the observability section: retrieve, rerank, log both lengths
Observe(p, retrieved_nodes) ==
    /\ t_calls[p].pc = "observe"
    /\ t_calls' = [t_calls EXCEPT ![p].pc = "engine",
                                  ![p].candidates = retrieved_nodes,
                                  ![p].reranked = postprocess_nodes(retrieved_nodes)]
    /\ UNCHANGED <<w_task, dirVars>>
    /\ UNCHANGED <<retrVars, ingVars, raceVars, tmpVars, listVars>>

\* response = chat_engine.chat(query): the engine builds its context, asks the
\* LLM, and the memory appends the user and the assistant message
Engine(p) ==
    LET thread_id == t_calls[p].thread_id
    IN  /\ t_calls[p].pc = "engine"
        /\ t_calls' = [t_calls EXCEPT
                          ![p].pc = "llen",
                          ![p].context = engine_context(t_calls[p].candidates,
                                                        t_calls[p].reranked)]
        /\ short_term' = [t \in DOMAIN short_term \cup {thread_id} |->
                             IF t = thread_id THEN StoredMessages(thread_id) + 2
                             ELSE short_term[t]]
        /\ UNCHANGED <<agents, threads, file_chunks, chat_chunks, jobs, ids, resp, w_task>>
        /\ UNCHANGED <<retrVars, ingVars, raceVars, tmpVars, listVars>>

\* turn_id = redis_client.llen(thread_id) // 2 + 1
ReadLen(p) ==
    /\ t_calls[p].pc = "llen"
    /\ t_calls' = [t_calls EXCEPT
                      ![p].pc = "ingest",
                      ![p].turn_id = turn_id_of(StoredMessages(t_calls[p].thread_id))]
    /\ UNCHANGED <<w_task, dirVars>>
    /\ UNCHANGED <<retrVars, ingVars, raceVars, tmpVars, listVars>>

\* _ingest_turn_to_memory, then return response_text: the memory API stores
\* the turn, or the failure is logged and the turn is dropped
IngestTurn(p, outcome) ==
    /\ t_calls[p].pc = "ingest"
    /\ t_calls' = [t_calls EXCEPT
                      ![p].pc = IF ingest_turn_raises(outcome) THEN "raised" ELSE "returned",
                      ![p].memory = IF outcome = "ok" THEN "ok"
                                    ELSE IF ingest_turn_raises(outcome) THEN "none"
                                    ELSE "logged",
                      ![p].order = Cardinality(PastChats) + 1]
    /\ chat_chunks' = IF outcome = "ok"
                      THEN chat_chunks \cup {[thread_id |-> t_calls[p].thread_id,
                                              turn_id |-> t_calls[p].turn_id]}
                      ELSE chat_chunks
    /\ UNCHANGED <<agents, threads, file_chunks, short_term, jobs, ids, resp, w_task>>
    /\ UNCHANGED <<retrVars, ingVars, raceVars, tmpVars, listVars>>

\* POST /schedule-ingest-chat: add_task(call_worker_endpoint), answer 202
ScheduleChatIngestion(thread_id, turn_id) ==
    /\ w_task.pc = "idle"
    /\ w_task' = [IdleWorker EXCEPT !.pc = "added", !.thread_id = thread_id,
                                    !.turn_id = turn_id]
    /\ UNCHANGED <<t_calls, dirVars>>
    /\ UNCHANGED <<retrVars, ingVars, raceVars, tmpVars, listVars>>

\* the background task call_worker_endpoint runs
CallWorkerEndpoint(outcome) ==
    /\ w_task.pc = "added"
    /\ w_task' = [w_task EXCEPT
                     !.pc = IF call_worker_raises(outcome) THEN "raised" ELSE "done",
                     !.logged = outcome # "ok" /\ ~call_worker_raises(outcome)]
    /\ chat_chunks' = IF outcome = "ok"
                      THEN chat_chunks \cup {[thread_id |-> w_task.thread_id,
                                              turn_id |-> w_task.turn_id]}
                      ELSE chat_chunks
    /\ UNCHANGED <<agents, threads, file_chunks, short_term, jobs, ids, resp, t_calls>>
    /\ UNCHANGED <<retrVars, ingVars, raceVars, tmpVars, listVars>>

NextChat ==
    \/ \E p \in Callers, t \in ChatThreads : BeginChat(p, t)
    \/ \E p \in Callers, c \in CandidateLists : Observe(p, c)
    \/ \E p \in Callers : Engine(p)
    \/ \E p \in Callers : ReadLen(p)
    \/ \E p \in Callers, o \in MemoryOutcomes : IngestTurn(p, o)
    \/ \E t \in ChatThreads, n \in 1..(MaxTurns + 1) : ScheduleChatIngestion(t, n)
    \/ \E o \in MemoryOutcomes : CallWorkerEndpoint(o)

SpecChat == InitChat /\ [][NextChat]_vars

----------------------------------------------------------------------------
(* The files of an agent: listing and deleting *)

\* the _id MongoDBAtlasVectorSearch gives a stored node: the node's own id,
\* never a file id (file ids are the positive numbers)
node_id(c) == 0 - (c.file_id * (ChunksPerDoc + 1) + c.chunk_no)

\* file.get("owner_user_id") on a stored node: the owner is kept under
\* metadata, the document has no such top-level field
top_level_owner_user_id(c) == ""

\* is_owner_of_file: find_one({"_id": file_id}), then the top-level owner
is_owner_of_file(file_id, owner_user_id) ==
    \E c \in file_chunks : node_id(c) = file_id /\ top_level_owner_user_id(c) = owner_user_id

\* the parameters of is_owner_of_file and the keywords delete_file calls it with
is_owner_of_file_parameters == {"file_id", "owner_user_id"}
delete_file_keywords == {"file_id", "user_id"}

\* delete_file_by_id: delete_many({"metadata.file_id": file_id})
delete_file_by_id(file_id) == {c \in file_chunks : c.file_id # file_id}

\* list_files_for_agent: the $match of the pipeline, then the file ids of the
\* $group. {"metadata.user_ids": u} matches an array that contains u;
\* {"$exists": False} matches a node without the field, and ingest_files
\* writes the field on every node
list_files_for_agent(agent_id, user_id, agent_owner_id) ==
    {c.file_id : c \in {d \in file_chunks :
                           /\ d.agent_id = agent_id
                           /\ (user_id # agent_owner_id => user_id \in d.user_ids)}}

\* GET /agents/{agent_id}/files
ListFilesForAgent(agent_id, user_id) ==
    /\ resp' = [BlankResp EXCEPT
                   !.op = "list_files_for_agent", !.user = user_id, !.agent_id = agent_id,
                   !.status = (CASE has_access_to_agent(agent_id, user_id) = "True" -> 200
                                 [] has_access_to_agent(agent_id, user_id) = "False" -> 403
                                 [] OTHER -> 500),
                   !.listed = IF has_access_to_agent(agent_id, user_id) = "True"
                              THEN LET agent == CHOOSE a \in AgentById(agent_id) : TRUE
                                   IN  list_files_for_agent(agent_id, user_id,
                                                            agent.owner_user_id)
                              ELSE {}]
    /\ UNCHANGED <<agents, threads, file_chunks, chat_chunks, short_term, jobs, ids>>
    /\ UNCHANGED retrVars
    /\ UNCHANGED <<ingVars, raceVars>>
    /\ UNCHANGED <<chatVars, tmpVars, listVars>>

\* POST /worker/ingest-files -> ingest_files with the request's own user_ids
WorkerIngestFiles(owner_user_id, agent_id, user_ids, file_paths) ==
    LET final_user_ids == ingest_final_user_ids(user_ids, owner_user_id)
        id_map == file_id_map(file_paths, ids.file)
    IN  /\ ids.upload <= MaxUploads
        /\ file_chunks' = file_chunks \cup
               prepared_chunks(ids.upload, id_map, owner_user_id, agent_id, 0,
                               final_user_ids)
        /\ ids' = [ids EXCEPT !.file = @ + Len(id_map), !.upload = @ + 1]
        /\ resp' = [BlankResp EXCEPT !.op = "ingest_files_worker", !.status = 200,
                                     !.user = owner_user_id, !.agent_id = agent_id,
                                     !.user_ids = user_ids]
        /\ UNCHANGED <<agents, threads, chat_chunks, short_term, jobs>>
        /\ UNCHANGED retrVars
        /\ UNCHANGED <<ingVars, raceVars>>
        /\ UNCHANGED <<chatVars, tmpVars, listVars>>

IssuedFiles == 1..(ids.file - 1)

\* DELETE /files/{file_id}: the ownership check is called with a keyword the
\* method does not have (TypeError, answered 500); past it, 403 for a
\* non-owner, then delete_file_by_id, whose True / False is compared with 0
DeleteFile(file_id, owner_user_id) ==
    /\ IF ~(delete_file_keywords \subseteq is_owner_of_file_parameters)
       THEN /\ resp' = [BlankResp EXCEPT !.op = "delete_file", !.status = 500,
                                         !.user = owner_user_id, !.file_id = file_id]
            /\ UNCHANGED file_chunks
       ELSE IF ~is_owner_of_file(file_id, owner_user_id)
       THEN /\ resp' = [BlankResp EXCEPT !.op = "delete_file", !.status = 403,
                                         !.user = owner_user_id, !.file_id = file_id]
            /\ UNCHANGED file_chunks
       ELSE /\ resp' = [BlankResp EXCEPT !.op = "delete_file", !.status = 200,
                                         !.user = owner_user_id, !.file_id = file_id]
            /\ file_chunks' = delete_file_by_id(file_id)
    /\ UNCHANGED <<agents, threads, chat_chunks, short_term, jobs, ids>>
    /\ UNCHANGED retrVars
    /\ UNCHANGED <<ingVars, raceVars>>
    /\ UNCHANGED <<chatVars, tmpVars, listVars>>

NextFiles ==
    \/ \E n \in Names, o \in Users, l \in OptLists : CreateAgent(n, o, l)
    \/ \E o \in Users, a \in IssuedAgents : UploadFiles(o, a, 0)
    \/ \E j \in jobs : IngestFiles(j)
    \/ \E o \in Users, a \in IssuedAgents, l \in OptLists, f \in PathLists :
          WorkerIngestFiles(o, a, l, f)
    \/ \E a \in IssuedAgents, u \in Users : ListFilesForAgent(a, u)
    \/ \E f \in IssuedFiles, u \in Users : DeleteFile(f, u)

SpecFiles == Init /\ [][NextFiles]_vars

----------------------------------------------------------------------------
(* create_agent with the requested user_ids as a Python list *)

MaxListLen == 2

\* the lists a request can carry: every sequence of users, repeats included
RECURSIVE Seqs(_, _)
Seqs(S, n) ==
    IF n = 0 THEN {<<>>}
    ELSE {<<>>} \cup {<<x>> \o s : x \in S, s \in Seqs(S, n - 1)}

NoneList == [null |-> TRUE, list |-> <<>>]
SomeList(l) == [null |-> FALSE, list |-> l]
RequestLists == {NoneList} \cup {SomeList(l) : l \in Seqs(Users, MaxListLen)}

\* list(set(l)): the distinct elements of l, in an order Python does not fix
list_of_set(l) == {s \in NoDupSeqs(SeqToSet(l), Len(l)) : SeqToSet(s) = SeqToSet(l)}

\* a create_agent that appends the owner and stores the list as it is
final_user_ids_no_set(user_ids, owner_user_id) ==
    IF ~user_ids.null /\ user_ids.list # <<>>
    THEN {SomeList(user_ids.list \o <<owner_user_id>>)}
    ELSE {NoneList}

\* create_agent, lines 37-39: the values final_user_ids can take
final_user_ids(user_ids, owner_user_id) ==
    IF ~user_ids.null /\ user_ids.list # <<>>
    THEN {SomeList(l) : l \in list_of_set(user_ids.list \o <<owner_user_id>>)}
    ELSE {NoneList}

\* AgentManagementService.create_agent(name, owner_user_id, config, user_ids)
CreateAgentList(name, owner_user_id, user_ids) ==
    /\ ids.agent <= MaxAgents
    /\ ~\E a \in agents : a.name = name /\ a.owner_user_id = owner_user_id
    /\ \E stored \in final_user_ids(user_ids, owner_user_id) :
          /\ agents' = agents \cup
                {[id |-> ids.agent, name |-> name, owner_user_id |-> owner_user_id,
                  user_ids |-> IF stored.null THEN NoneIds
                               ELSE Some(SeqToSet(stored.list))]}
          /\ a_lists' = [a \in DOMAIN a_lists \cup {ids.agent} |->
                            IF a = ids.agent
                            THEN [requested |-> user_ids, stored |-> stored]
                            ELSE a_lists[a]]
    /\ ids' = [ids EXCEPT !.agent = @ + 1]
    /\ resp' = [BlankResp EXCEPT !.op = "create_agent", !.status = 201,
                                 !.user = owner_user_id, !.agent_id = ids.agent]
    /\ UNCHANGED <<threads, file_chunks, chat_chunks, short_term, jobs>>
    /\ UNCHANGED <<retrVars, ingVars, raceVars, chatVars, tmpVars>>

\* the name is taken: ValueError, answered 409
CreateAgentListTaken(name, owner_user_id) ==
    /\ \E a \in agents : a.name = name /\ a.owner_user_id = owner_user_id
    /\ resp' = [BlankResp EXCEPT !.op = "create_agent", !.status = 409,
                                 !.user = owner_user_id]
    /\ UNCHANGED <<agents, threads, file_chunks, chat_chunks, short_term, jobs, ids>>
    /\ UNCHANGED <<retrVars, ingVars, raceVars, chatVars, tmpVars, listVars>>

NextLists ==
    \/ \E n \in Names, o \in Users, l \in RequestLists : CreateAgentList(n, o, l)
    \/ \E n \in Names, o \in Users : CreateAgentListTaken(n, o)

SpecLists == Init /\ [][NextLists]_vars

----------------------------------------------------------------------------
(* upload_files and its temporary directory *)

MaxUploadCalls == 3
MaxFiles == 2

\* how the background task's ingest_files call can end
IngestionOutcomes == {"succeeded", "failed", "raised"}

\* lines 119-121 of an accepted request: tempfile.mkdtemp(), file_paths = []
BeginUpload(files) ==
    /\ u_call.pc = "idle"
    /\ u_call.made < MaxUploadCalls
    /\ u_call' = [u_call EXCEPT !.pc = "write", !.temp_dir = u_call.made + 1,
                                !.written = 0, !.files = files, !.made = @ + 1]
    /\ tmp_dirs' = tmp_dirs \cup {u_call.made + 1}
    /\ UNCHANGED bg_tasks
    /\ UNCHANGED dirVars
    /\ UNCHANGED <<retrVars, ingVars, raceVars, chatVars, listVars>>

\* lines 122-128: one file of the loop is written; try / finally closes the
\* upload and has no except, so a failure of open or copyfileobj leaves
\* upload_files there and then
WriteFile(ok) ==
    /\ u_call.pc = "write"
    /\ u_call.written < u_call.files
    /\ u_call' = IF ok THEN [u_call EXCEPT !.written = @ + 1]
                 ELSE [IdleUpload EXCEPT !.made = u_call.made]
    /\ UNCHANGED <<tmp_dirs, bg_tasks>>
    /\ UNCHANGED dirVars
    /\ UNCHANGED <<retrVars, ingVars, raceVars, chatVars, listVars>>

\* lines 131-148: add_task(run_ingestion_and_cleanup, temp_dir = ...), answer 202
AddTask ==
    /\ u_call.pc = "write"
    /\ u_call.written = u_call.files
    /\ bg_tasks' = [d \in DOMAIN bg_tasks \cup {u_call.temp_dir} |->
                       IF d = u_call.temp_dir THEN "added" ELSE bg_tasks[d]]
    /\ u_call' = [IdleUpload EXCEPT !.made = u_call.made]
    /\ UNCHANGED tmp_dirs
    /\ UNCHANGED dirVars
    /\ UNCHANGED <<retrVars, ingVars, raceVars, chatVars, listVars>>

\* run_ingestion_and_cleanup: ingest_files in a try, shutil.rmtree in its finally
RunIngestionAndCleanup(temp_dir, outcome) ==
    /\ temp_dir \in DOMAIN bg_tasks
    /\ bg_tasks[temp_dir] = "added"
    /\ bg_tasks' = [bg_tasks EXCEPT ![temp_dir] = outcome]
    /\ tmp_dirs' = tmp_dirs \ {temp_dir}
    /\ UNCHANGED u_call
    /\ UNCHANGED dirVars
    /\ UNCHANGED <<retrVars, ingVars, raceVars, chatVars, listVars>>

NextUpload ==
    \/ \E n \in 1..MaxFiles : BeginUpload(n)
    \/ \E ok \in BOOLEAN : WriteFile(ok)
    \/ AddTask
    \/ \E d \in DOMAIN bg_tasks, o \in IngestionOutcomes : RunIngestionAndCleanup(d, o)

SpecUpload == Init /\ [][NextUpload]_vars

----------------------------------------------------------------------------
(* Properties *)

PublicAgent(a) == a.user_ids.null \/ a.user_ids.ids = {}

\* an accepted upload under an agent / a thread is the last answered request
AgentUploadDone == resp.op = "upload_files" /\ resp.status = 202 /\ resp.agent_id # 0
ThreadUploadDone == resp.op = "upload_files" /\ resp.status = 202 /\ resp.agent_id = 0

\* C1: in Hybrid mode an id that both the vector list and the keyword list
\* contain occurs exactly once in the merged output, and that entry is the
\* keyword list's document (its score), not the vector list's.
C1_SharedIdKeepsKeywordDoc ==
    (r_pc.state = "done" /\ r_search_type = "Hybrid") =>
        \A i \in 1..Len(r_vector), j \in 1..Len(r_keyword) :
            r_vector[i].id = r_keyword[j].id =>
                /\ Cardinality({k \in 1..Len(r_out) : r_out[k].id = r_keyword[j].id}) = 1
                /\ \A k \in 1..Len(r_out) :
                      r_out[k].id = r_keyword[j].id => r_out[k] = r_keyword[j]

\* C2: a chat query returns no chunk of a file whose non-empty user_ids list
\* does not contain the user who sent the query.
C2_RetrievalAccessScoped ==
    resp.op = "chat" =>
        \A k \in 1..Len(resp.hits) :
            resp.hits[k].metadata.user_ids # {} =>
                resp.user \in resp.hits[k].metadata.user_ids

\* C3: once delete_agent has succeeded (and no ingestion is in flight), no
\* file chunk and no thread refers to the deleted agent, and no file chunk or
\* chat turn refers to a thread of that agent.
C3_CascadeComplete ==
    (resp.op = "delete_agent" /\ resp.status = 200 /\ jobs = {}) =>
        /\ \A c \in file_chunks : c.agent_id # resp.agent_id
        /\ \A t \in threads : t.agent_id # resp.agent_id
        /\ \A t \in threads : t.agent_id = resp.agent_id =>
              /\ \A c \in file_chunks : c.thread_id # t.id
              /\ \A c \in chat_chunks : c.thread_id # t.id

\* C4: the chunks one ingestion call writes for one path all carry the same
\* file_id, however often the path occurs in the call's list.
C4_OneFileIdPerPath ==
    \A c \in file_chunks, d \in file_chunks :
        (c.call = d.call /\ c.file_name = d.file_name) => c.file_id = d.file_id

\* C5: the applied list computed for an upload under an agent contains the owner.
C5_OwnerAlwaysApplied ==
    AgentUploadDone => (~resp.applied.null /\ resp.user \in resp.applied.ids)

\* C6: an upload under a public agent, whatever list R it requests, is
\* answered with applied = R + {owner} and excluded = {}.
C6_PublicPassThrough ==
    (resp.op = "upload_files" /\ resp.status \in {202, 500} /\ resp.agent_id # 0) =>
        \A a \in AgentById(resp.agent_id) :
            PublicAgent(a) =>
                /\ resp.status = 202
                /\ resp.applied = Some(resp.user_ids.ids \cup {resp.user})
                /\ resp.excluded = {}

\* C7: under a non-public agent with access list A, the applied list answered
\* to the uploader and the user_ids written to every chunk of the agent's
\* files are subsets of A + {owner}.
C7_InheritanceSubset ==
    /\ AgentUploadDone =>
          \A a \in AgentById(resp.agent_id) :
              ~PublicAgent(a) =>
                  /\ ~resp.applied.null
                  /\ resp.applied.ids \subseteq a.user_ids.ids \cup {resp.user}
    /\ \A c \in file_chunks, a \in agents :
          (c.agent_id = a.id /\ ~PublicAgent(a)) =>
              c.user_ids \subseteq a.user_ids.ids \cup {c.owner_user_id}

\* a restricted agent's upload asked for a user outside the agent's list, and
\* its chunks are stored
C7_Witness ==
    /\ AgentUploadDone
    /\ resp.excluded # {}
    /\ \E c \in file_chunks, a \in agents :
          c.agent_id = a.id /\ a.id = resp.agent_id /\ ~PublicAgent(a) /\ c.user_ids # {}

\* C8: an upload with a non-empty requested list R under an agent with a
\* non-empty list A is answered with applied = (A \cap R) + {owner} and
\* excluded = R \ A; the two are disjoint and every requested id outside A is
\* excluded.
C8_RestrictedAgentRule ==
    (AgentUploadDone /\ Truthy(resp.user_ids)) =>
        \A a \in AgentById(resp.agent_id) :
            ~PublicAgent(a) =>
                /\ resp.applied = Some((a.user_ids.ids \cap resp.user_ids.ids) \cup {resp.user})
                /\ resp.excluded = resp.user_ids.ids \ a.user_ids.ids
                /\ resp.applied.ids \cap resp.excluded = {}
                /\ \A r \in resp.user_ids.ids : r \notin a.user_ids.ids => r \in resp.excluded

\* the second E2E scenario's shape: R has one id inside A and one outside, the
\* owner is not requested
C8_Witness ==
    /\ AgentUploadDone
    /\ \E a \in AgentById(resp.agent_id) :
          /\ ~PublicAgent(a)
          /\ resp.user \notin resp.user_ids.ids
          /\ (resp.user_ids.ids \cap a.user_ids.ids) \ {resp.user} # {}
          /\ resp.user_ids.ids \ a.user_ids.ids # {}
          /\ resp.excluded = resp.user_ids.ids \ a.user_ids.ids

C10_PublicSemantics ==
    \A a \in agents :
        /\ (resp.op = "get_agent" /\ resp.agent_id = a.id) =>
              (resp.status = 200 <=> (PublicAgent(a) \/ resp.user \in a.user_ids.ids))
        /\ resp.op = "list_agents" =>
              (a.id \in resp.listed <=> (PublicAgent(a) \/ resp.user \in a.user_ids.ids))

\* C11: in Hybrid mode, when exactly one of the two sub-queries failed, the
\* retrieval does not raise and its output is exactly the result list of the
\* sub-query that succeeded.
C11_HybridDegradation ==
    (r_search_type = "Hybrid" /\ r_pc.state \in {"dispatch", "done", "raised"}) =>
        /\ (r_pc.vector = "failed" /\ r_pc.keyword = "ok") =>
              /\ r_pc.state # "raised"
              /\ r_pc.state = "done" => r_out = r_keyword
        /\ (r_pc.keyword = "failed" /\ r_pc.vector = "ok") =>
              /\ r_pc.state # "raised"
              /\ r_pc.state = "done" => r_out = r_vector

\* a Hybrid retrieval has returned the keyword results after its vector query failed
C11_Witness ==
    /\ r_search_type = "Hybrid"
    /\ r_pc.state = "done"
    /\ r_pc.vector = "failed"
    /\ r_pc.keyword = "ok"
    /\ Len(r_keyword) = 2
    /\ r_out = r_keyword

\* C12: whatever external call fails during a retrieval (the embedding of the
\* query, the vector query, the keyword query), _retrieve returns a list and
\* raises nothing to its caller.
C12_RetrieverNeverRaises ==
    r_pc.state # "raised"

\* events of the running ingest_files call
LogEvents(ev) == {k \in 1..Len(i_log) : i_log[k].ev = ev}
Attempts(b) == Cardinality({k \in LogEvents("start") : i_log[k].batch = b})
BatchFailed(b) == \E k \in LogEvents("fail") : i_log[k].batch = b
BatchCommitted(b) == \E k \in LogEvents("ok") : i_log[k].batch = b

\* C13: a batch insert that failed is attempted again, up to 3 attempts in
\* all: when the call has returned, every batch that failed was either
\* committed by a later attempt or attempted 3 times.
C13_BoundedRetry ==
    i_pc = "returned" =>
        \A b \in 1..total_batches(i_n) :
            BatchFailed(b) =>
                /\ Attempts(b) <= 3
                /\ BatchCommitted(b) \/ Attempts(b) = 3

\* C14: when batch i of a call failed for good, the chunks of batches 1..i-1
\* are still in the collection and the call's outcome differs from the outcome
\* of a call in which nothing failed.
C14_PartialCommittedAndReported ==
    (i_pc = "returned" /\ LogEvents("fail") # {} /\ LogEvents("ok") # {}) =>
        /\ \A k \in LogEvents("ok") :
              \A x \in i_log[k].nodes : [call |-> i_call, node |-> x] \in i_coll
        /\ i_ret # ingest_files_return(FALSE)

\* C15: the batches of one call are consecutive slices of at most
\* ingestion_batch_size nodes, numbered 1, 2, ...; the insert of a batch starts
\* only after the insert of the batch before it has finished; a call in which
\* no insert failed made ceil(n / ingestion_batch_size) batches and stored
\* every node exactly once.
C15_SequentialBatches ==
    /\ \A k \in LogEvents("start") :
          /\ Cardinality(i_log[k].nodes) \in 1..ingestion_batch_size
          /\ i_log[k].batch = Cardinality({j \in LogEvents("start") : j <= k})
          /\ i_log[k].nodes =
                {x \in 1..i_n : /\ x > (i_log[k].batch - 1) * ingestion_batch_size
                                /\ x <= i_log[k].batch * ingestion_batch_size}
          /\ k > 1 => /\ i_log[k - 1].ev = "ok"
                      /\ i_log[k - 1].batch = i_log[k].batch - 1
    /\ \A j \in LogEvents("start"), k \in LogEvents("start") :
          j # k => i_log[j].nodes \cap i_log[k].nodes = {}
    /\ (i_pc \in {"indexes", "returned"} /\ i_n > 0 /\ LogEvents("fail") = {}) =>
          /\ Cardinality(LogEvents("ok")) * ingestion_batch_size >= i_n
          /\ (Cardinality(LogEvents("ok")) - 1) * ingestion_batch_size < i_n
          /\ Cardinality(LogEvents("ok")) = total_batches(i_n)
          /\ UNION {i_log[k].nodes : k \in LogEvents("ok")} = 1..i_n
          /\ {c.node : c \in {d \in i_coll : d.call = i_call}} = 1..i_n

\* a call over MaxNodes nodes went through all its batches, the last one short
C15_Witness ==
    /\ i_pc = "returned"
    /\ i_n = MaxNodes
    /\ LogEvents("fail") = {}
    /\ Cardinality(LogEvents("ok")) >= 2
    /\ \E k \in LogEvents("ok") : Cardinality(i_log[k].nodes) < ingestion_batch_size

\* C16: the index ensure goes on after an "already exists" answer and ends at
\* once on any other failure; a call whose ensure step was not aborted leaves
\* both indexes; no ensure step removes an index or an inserted chunk.
C16_IdempotentIndexEnsure ==
    /\ []( \A k \in LogEvents("index") :
             /\ i_log[k].outcome = "failure" => (k = Len(i_log) /\ i_pc = "returned")
             /\ (i_log[k].outcome = "already exists" /\ i_log[k].batch < Len(index_names)) =>
                   IF k = Len(i_log)
                   THEN i_pc = "indexes" /\ i_ix = i_log[k].batch + 1
                   ELSE i_log[k + 1].ev = "index" /\ i_log[k + 1].batch = i_log[k].batch + 1 )
    /\ []( (i_pc = "returned" /\ LogEvents("index") # {}
             /\ \A k \in LogEvents("index") : i_log[k].outcome # "failure")
           => i_indexes = {index_names[j] : j \in 1..Len(index_names)} )
    /\ [][i_pc = "indexes" => (i_coll' = i_coll /\ i_indexes \subseteq i_indexes')]_vars

\* a second call, run after the first created both indexes, was told "already
\* exists" twice and returned with the same two indexes and its chunks stored
C16_Witness ==
    /\ i_pc = "returned"
    /\ i_call = 2
    /\ Cardinality(LogEvents("index")) = 2
    /\ \A k \in LogEvents("index") : i_log[k].outcome = "already exists"
    /\ Cardinality(i_indexes) = 2
    /\ \E c \in i_coll : c.call = 2

\* C17: an upload that names both an agent and a thread, or neither, is
\* answered 400 whoever owns what, and adds no background task; an upload is
\* accepted (202) only when it names exactly one of the two.
C17_ScopeValidation ==
    /\ [](resp.op = "upload_files" =>
             /\ ((resp.agent_id # 0) <=> (resp.thread_id # 0)) => resp.status = 400
             /\ resp.status = 202 => ((resp.agent_id # 0) # (resp.thread_id # 0)))
    /\ [][(resp'.op = "upload_files" /\ resp'.status = 400 /\ resp' # resp)
             => (jobs' = jobs /\ ids' = ids /\ file_chunks' = file_chunks)]_vars

\* an upload naming an existing agent and an existing thread, sent by a user
\* who owns neither, was rejected with 400
C17_Witness ==
    /\ resp.op = "upload_files"
    /\ resp.status = 400
    /\ AgentById(resp.agent_id) # {}
    /\ ThreadById(resp.thread_id) # {}
    /\ ~is_owner_of_agent(resp.agent_id, resp.user)
    /\ ~is_owner_of_thread(resp.thread_id, resp.user)

\* C18: a request naming an agent id that does not exist is answered 404, and
\* 403 is answered only when the agent exists and the caller lacks ownership
\* or membership.
C18_ExistenceBeforeOwnership ==
    /\ resp.op = "get_agent" =>
          /\ AgentById(resp.agent_id) = {} => resp.status = 404
          /\ resp.status = 403 => AgentById(resp.agent_id) # {}
    /\ (resp.op = "delete_agent" /\ resp.status # 200) =>
          /\ AgentById(resp.agent_id) = {} => resp.status = 404
          /\ resp.status = 403 => AgentById(resp.agent_id) # {}

SameNameAndOwner(x, y) == x.name = y.name /\ x.owner_user_id = y.owner_user_id

\* C19: with create requests executed one at a time, no two stored agents and
\* no two stored threads share (name, owner_user_id); a request answered
\* Conflict named a pair its owner already uses and inserted nothing; a request
\* whose name only another owner uses is not refused.
C19_NameUniquePerOwner ==
    /\ [](/\ \A a \in agents, b \in agents : SameNameAndOwner(a, b) => a.id = b.id
          /\ \A t \in threads, u \in threads : SameNameAndOwner(t, u) => t.id = u.id
          /\ \A p \in Callers :
                c_calls[p].pc = "conflict" =>
                    IF c_calls[p].kind = "agent"
                    THEN \E a \in agents : SameNameAndOwner(a, c_calls[p])
                    ELSE \E t \in threads : SameNameAndOwner(t, c_calls[p]))
    /\ [][\A p \in Callers :
             (c_calls[p].pc = "check" /\ c_calls'[p].pc = "conflict")
                => (agents' = agents /\ threads' = threads)]_vars

\* two owners hold agents of one name, and a request of one of them for that
\* name was answered Conflict
C19_Witness ==
    /\ \E a \in agents, b \in agents :
          a.name = b.name /\ a.owner_user_id # b.owner_user_id
    /\ \E p \in Callers :
          /\ c_calls[p].pc = "conflict"
          /\ c_calls[p].kind = "agent"
          /\ \E a \in agents : SameNameAndOwner(a, c_calls[p])

\* C20: nothing between the find_one test and the insert looks at the
\* collection again: a request that passed the test inserts its document and
\* is answered Created whatever was inserted meanwhile, so interleaved requests
\* for one (name, owner) leave two documents and none reports Conflict.
C20_CheckThenAct ==
    [][\A p \in Callers :
          (c_calls[p].pc = "insert" /\ c_calls'[p].pc # "insert") =>
              /\ c_calls'[p].pc = "created"
              /\ c_calls[p].kind = "agent" => Cardinality(agents') = Cardinality(agents) + 1
              /\ c_calls[p].kind = "thread" => Cardinality(threads') = Cardinality(threads) + 1]_vars

\* two agents of one (name, owner) are stored and both requests were answered Created
C20_Witness ==
    /\ \E a \in agents, b \in agents : a.id # b.id /\ SameNameAndOwner(a, b)
    /\ \A p \in Callers : c_calls[p].pc = "created" /\ c_calls[p].kind = "agent"
    /\ \A p \in Callers, q \in Callers : SameNameAndOwner(c_calls[p], c_calls[q])

\* C21: every stored file chunk names an agent or a thread that still exists,
\* and every stored chat turn names a thread that still exists.
C21_NoOrphanedChunks ==
    /\ \A c \in file_chunks :
          /\ c.agent_id # 0 => AgentById(c.agent_id) # {}
          /\ c.thread_id # 0 => ThreadById(c.thread_id) # {}
    /\ \A c \in chat_chunks : ThreadById(c.thread_id) # {}

\* C22: two chat turns of one thread that were sent to long-term ingestion
\* carry different turn ids, and the turn sent later carries the larger one.
C22_TurnIdsMonotonic ==
    \A p \in PastChats, q \in PastChats :
        (t_calls[p].thread_id = t_calls[q].thread_id
            /\ t_calls[p].order < t_calls[q].order)
        => t_calls[p].turn_id < t_calls[q].turn_id

\* C23: a failure of the memory API or of the worker endpoint never leaves the
\* code that sends the turn: the chat call returns and the background task
\* ends, with the failure logged.
C23_IngestionBestEffort ==
    /\ \A p \in Callers :
          /\ t_calls[p].pc # "raised"
          /\ (t_calls[p].pc = "returned" /\ t_calls[p].memory # "ok")
                => t_calls[p].memory = "logged"
    /\ w_task.pc # "raised"

\* C24: the context the chat engine answered from is the reranker's output
\* for the retrieved candidates.
C24_ContextIsReranked ==
    \A p \in Callers :
        t_calls[p].pc \in {"llen", "ingest", "returned"}
        => t_calls[p].context = postprocess_nodes(t_calls[p].candidates)

\* C25: after a delete request for a file, no chunk of that file that the
\* requester owns is left, and a request by anyone else was answered Forbidden.
C25_FileDeletionGated ==
    resp.op = "delete_file" =>
        \A c \in file_chunks :
            c.file_id = resp.file_id =>
                /\ c.owner_user_id # resp.user
                /\ resp.status = 403

MergedInListOrder(keyword_results, vector_results) ==
    LET from_vector(id) == CHOOSE d \in SeqToSet(vector_results) : d.id = id
        in_vector(id) == \E d \in SeqToSet(vector_results) : d.id = id
        in_keyword(d) == \E e \in SeqToSet(keyword_results) : e.id = d.id
        not_in_keyword(d) == ~in_keyword(d)
    IN  [i \in 1..Len(keyword_results) |->
            IF in_vector(keyword_results[i].id) THEN from_vector(keyword_results[i].id)
            ELSE keyword_results[i]]
        \o SelectSeq(vector_results, not_in_keyword)

\* C27: a finished Hybrid retrieval merged after both sub-queries had
\* returned, and its output is determined by the two result lists alone,
\* whichever sub-query returned first: no id twice, at most 2 x top_k entries.
C27_MergeOrderIndependent ==
    /\ (r_search_type = "Hybrid" /\ r_pc.state = "dispatch") => r_out = <<>>
    /\ (r_search_type = "Hybrid" /\ r_pc.state = "done") =>
          /\ r_pc.vector # "none"
          /\ r_pc.keyword # "none"
          /\ r_out = MergedInListOrder(r_keyword, r_vector)
          /\ \A i \in 1..Len(r_out), j \in 1..Len(r_out) :
                r_out[i].id = r_out[j].id => i = j
          /\ Len(r_out) <= 2 * top_k

C27_Witness ==
    /\ r_search_type = "Hybrid"
    /\ r_pc.state = "done"
    /\ r_pc.first = "vector"
    /\ Len(r_keyword) = top_k
    /\ Len(r_vector) = top_k
    /\ Len(r_out) = 2 * top_k - 1

\* C28: a delete of an agent or a thread that does not exist, or by a user who
\* is not its owner, is refused and leaves the agent, thread, file-chunk,
\* chat-turn and short-term stores exactly as they were.
C28_RefusedDeleteChangesNothing ==
    [][/\ \A a \in 1..MaxAgents, u \in Users :
             (DeleteAgent(a, u) /\ ~\E x \in agents : x.id = a /\ x.owner_user_id = u)
             => /\ resp'.status = 403
                /\ UNCHANGED <<agents, threads, file_chunks, chat_chunks, short_term>>
       /\ \A t \in 1..MaxThreads, u \in Users :
             (DeleteThread(t, u) /\ ~\E x \in threads : x.id = t /\ x.owner_user_id = u)
             => /\ resp'.status = 403
                /\ UNCHANGED <<agents, threads, file_chunks, chat_chunks, short_term>>]_vars

C28_Witness ==
    /\ resp.op = "delete_agent"
    /\ resp.status = 403
    /\ \E x \in agents : x.id = resp.agent_id /\ x.owner_user_id # resp.user
    /\ \E c \in file_chunks : c.agent_id = resp.agent_id

C30_TempDirHasCleanup ==
    \A d \in tmp_dirs :
        \/ u_call.pc = "write" /\ u_call.temp_dir = d
        \/ d \in DOMAIN bg_tasks /\ bg_tasks[d] = "added"


====
